---- MODULE Spec2Model ----
(***************************************************************************)
(* Model of Scripts/zst_to_csv_with_score_filtering_json.py:               *)
(* process_pushshift_zst streams a zstd-compressed file of newline-        *)
(* delimited JSON, reassembles lines across read chunks, filters each      *)
(* record by subreddit, score and body length, and appends one             *)
(* {"body": ...} JSON line per accepted record to the output file.         *)
(*                                                                         *)
(* Representation.  Python text (str) is run-length encoded (see Text).    *)
(* The decompressed input is a sequence of lexical units                   *)
(* ("tokens"), each standing for a fixed run of bytes of the stream:       *)
(*   nl      the terminator byte b'\n'                                     *)
(*   ws      one ASCII blank b' '                                          *)
(*   bad     the byte 0x80, which is not decodable as UTF-8               *)
(*   lbrace, rbrace, comma      b'{', b'}', b','                           *)
(*   member  the bytes of  "key":value  for a JSON value                   *)
(*   value   the bytes of a complete JSON value that is not an object      *)
(* Read chunks are cut between tokens, so a cut may fall anywhere inside a *)
(* line, directly before or directly after a terminator.                  *)
(***************************************************************************)
EXTENDS Integers, Sequences, FiniteSets, TLC

\* ---------------------------------------------------------------- bounds
\* Largest number of tokens one stream_reader.read call returns (the code asks
\* for 2**20 bytes; the library may return any non-empty shorter chunk).
ChunkSize == 3
\* Streams built from catalogue lines hold at most this many terminated lines.
MaxLines == 2
\* Streams over the raw alphabet {nl, ws, lbrace, rbrace} hold at most this many tokens.
MaxBytes == 4

\* ------------------------------------------------------ program constants
\* len(...) < 120
MinBodyLen == 120
\* post.get('score', 0)
DefaultScore == 0

\* ------------------------------------------------------------------ text
\* A Python str is held run-length encoded: a sequence of runs [c, n], n >= 1
\* copies of the character c, adjacent runs having different characters, so that
\* two texts are equal exactly when their encodings are.
Run(c, n) == [c |-> c, n |-> n]

\* a + b
Cat(a, b) ==
    IF a = <<>> THEN b
    ELSE IF b = <<>> THEN a
    ELSE IF a[Len(a)].c = b[1].c
    THEN SubSeq(a, 1, Len(a) - 1) \o <<Run(b[1].c, a[Len(a)].n + b[1].n)>> \o Tail(b)
    ELSE a \o b

\* The text with the given characters.
RECURSIVE Text(_)
Text(chars) == IF chars = <<>> THEN <<>> ELSE Cat(<<Run(Head(chars), 1)>>, Text(Tail(chars)))

\* c * n
Rep(c, n) == IF n = 0 THEN <<>> ELSE <<Run(c, n)>>

\* len(s)
RECURSIVE TextLen(_)
TextLen(s) == IF s = <<>> THEN 0 ELSE Head(s).n + TextLen(Tail(s))

\* The characters str.strip() removes that occur in the model's texts.
Whitespace == {" ", "\t", "\n"}

\* str.strip(): drop leading and trailing whitespace characters.
Strip(s) ==
    LET keep == {i \in 1..Len(s) : s[i].c \notin Whitespace}
    IN  IF keep = {} THEN <<>>
        ELSE LET lo == CHOOSE i \in keep : \A j \in keep : i <= j
                 hi == CHOOSE i \in keep : \A j \in keep : j <= i
             IN  SubSeq(s, lo, hi)

\* json.dumps' escaping of one character of a string: the character after the
\* backslash, or "" when the character is written as it is.
EscapeChar(c) ==
    CASE c = "\"" -> "\""
      [] c = "\\" -> "\\"
      [] c = "\n" -> "n"
      [] c = "\t" -> "t"
      [] OTHER    -> ""

\* The escaped form of n copies of c.
EscapeRun(r) ==
    IF EscapeChar(r.c) = "" THEN <<r>>
    ELSE IF r.c = "\\" THEN <<Run("\\", 2 * r.n)>>
    ELSE [i \in 1..(2 * r.n) |-> Run(IF i % 2 = 1 THEN "\\" ELSE EscapeChar(r.c), 1)]

RECURSIVE Escape(_)
Escape(s) == IF s = <<>> THEN <<>> ELSE Cat(EscapeRun(Head(s)), Escape(Tail(s)))

\* json.dumps(result) for result = {'body': text}:  {"body": "<escaped text>"}
Dumps(text) ==
    Cat(Cat(Text(<<"{", "\"", "b", "o", "d", "y", "\"", ":", " ", "\"">>), Escape(text)),
        Text(<<"\"", "}">>))

\* ---------------------------------------------------------- JSON values
StrV(s) == [t |-> "str",  s |-> s,    n |-> 0]
IntV(n) == [t |-> "int",  s |-> <<>>, n |-> n]
NullV   == [t |-> "null", s |-> <<>>, n |-> 0]
ArrV    == [t |-> "arr",  s |-> <<>>, n |-> 0]
\* Marks a key the parsed dict does not contain.
Absent  == [t |-> "absent", s |-> <<>>, n |-> 0]

\* The keys of a post that the filter reads.
Keys == {"subreddit", "score", "body", "title", "selftext"}

\* ---------------------------------------------------------------- tokens
Tok(tk, key, val) == [tk |-> tk, key |-> key, val |-> val]
NL     == Tok("nl", "", NullV)
WS     == Tok("ws", "", NullV)
BAD    == Tok("bad", "", NullV)
LBRACE == Tok("lbrace", "", NullV)
RBRACE == Tok("rbrace", "", NullV)
COMMA  == Tok("comma", "", NullV)
Member(key, val) == Tok("member", key, val)
Value(val)       == Tok("value", "", val)

\* ------------------------------------------------------------ line split
\* bytes.split(b'\n'): the segments between terminators, the last one (possibly
\* empty) being what follows the final terminator.
RECURSIVE Split(_)
Split(b) ==
    LET nls == {i \in 1..Len(b) : b[i].tk = "nl"}
    IN  IF nls = {} THEN <<b>>
        ELSE LET i == CHOOSE k \in nls : \A j \in nls : k <= j
             IN  <<SubSeq(b, 1, i - 1)>> \o Split(SubSeq(b, i + 1, Len(b)))

\* lines.pop(): the last element, kept as the new buffer.
Carry_dropPartial(parts) == <<>>
Carry(parts) == parts[Len(parts)]

\* What is left in `lines` after the pop.
Complete(parts) == SubSeq(parts, 1, Len(parts) - 1)

\* ------------------------------------------------------------- json.loads
\* `not line.strip()` on bytes: the line is empty or all ASCII whitespace.
IsBlank(line) == \A i \in 1..Len(line) : line[i].tk = "ws"

NoWs(line) == SelectSeq(line, LAMBDA x : x.tk # "ws")

\* The text is  { }  or  { member , member , ... member }.
IsObjectText(t) ==
    /\ Len(t) >= 2
    /\ t[1].tk = "lbrace"
    /\ t[Len(t)].tk = "rbrace"
    /\ \/ Len(t) = 2
       \/ /\ Len(t) % 2 = 1
          /\ \A i \in 2..(Len(t) - 1) : t[i].tk = (IF i % 2 = 0 THEN "member" ELSE "comma")

\* The value a dict built from the members holds for key k: the last member with
\* that key wins, as in Python's json.
Field(t, k) ==
    LET at == {i \in 1..Len(t) : t[i].tk = "member" /\ t[i].key = k}
    IN  IF at = {} THEN Absent
        ELSE t[CHOOSE i \in at : \A j \in at : j <= i].val

NoFields == [k \in Keys |-> Absent]

\* json.loads(line) on bytes: decode (UnicodeDecodeError on an undecodable
\* byte), then parse (JSONDecodeError on anything that is not one JSON value).
Loads(line) ==
    LET t == NoWs(line)
    IN  IF \E i \in 1..Len(line) : line[i].tk = "bad"
        THEN [err |-> "UnicodeDecodeError", top |-> "", m |-> NoFields]
        ELSE IF Len(t) = 1 /\ t[1].tk = "value"
        THEN [err |-> "ok", top |-> t[1].val.t, m |-> NoFields]
        ELSE IF IsObjectText(t)
        THEN [err |-> "ok", top |-> "obj", m |-> [k \in Keys |-> Field(t, k)]]
        ELSE [err |-> "JSONDecodeError", top |-> "", m |-> NoFields]

\* ----------------------------------------------------------------- filter
\* dict.get(key, default)
Get(post, key, default) == IF post[key].t = "absent" THEN default ELSE post[key]

\* post.get('subreddit') != subreddit_filter   (None when absent; != never raises)
SubredditRejects(post, sub) ==
    LET v == Get(post, "subreddit", NullV)
    IN  ~(v.t = "str" /\ v.s = sub)

\* post.get('score', 0)
ScoreOf_default21(post) == Get(post, "score", IntV(21))
ScoreOf(post) == Get(post, "score", IntV(DefaultScore))

\* post.get('score', 0) <= score_threshold
ScoreRejects_strict(score, thr) == score.n < thr
ScoreRejects(score, thr) == score.n <= thr

\* title + " " + body   /   post.get('body', '').strip()
BuildText(post) ==
    IF post["title"].t # "absent"
    THEN Cat(Cat(Strip(Get(post, "title", StrV(<<>>)).s), Text(<<" ">>)),
             Strip(Get(post, "selftext", StrV(<<>>)).s))
    ELSE Strip(Get(post, "body", StrV(<<>>)).s)

Skip(why)      == [kind |-> "skip",  err |-> "",  at |-> why, text |-> <<>>]
Raise(err, at) == [kind |-> "raise", err |-> err, at |-> at,  text |-> <<>>]
Emit(text)     == [kind |-> "emit",  err |-> "",  at |-> "",  text |-> text]

\* One pass of the body of `for line in lines`: what happens to the line.
FilterLine(line, sub, thr) ==
    IF IsBlank(line) THEN Skip("blank")
    ELSE LET p == Loads(line) IN
    IF p.err = "JSONDecodeError" THEN Skip("json")
    ELSE IF p.err # "ok" THEN Raise(p.err, "loads")
    ELSE IF p.top # "obj" THEN Raise("AttributeError", "get")
    ELSE LET post == p.m IN
    IF SubredditRejects(post, sub) THEN Skip("subreddit")
    ELSE IF ScoreOf(post).t # "int" THEN Raise("TypeError", "score")
    ELSE IF ScoreRejects(ScoreOf(post), thr) THEN Skip("score")
    ELSE IF Get(post, "body", StrV(<<>>)).t # "str" THEN Raise("AttributeError", "body")
    ELSE IF TextLen(Strip(Get(post, "body", StrV(<<>>)).s)) < MinBodyLen THEN Skip("length")
    ELSE IF post["title"].t # "absent" /\ post["title"].t # "str"
         THEN Raise("AttributeError", "title")
    ELSE IF post["title"].t # "absent" /\ Get(post, "selftext", StrV(<<>>)).t # "str"
         THEN Raise("AttributeError", "selftext")
    ELSE Emit(BuildText(post))

\* ----------------------------------------------------------------- inputs
Climbharder == Text(<<"c", "l", "i", "m", "b", "h", "a", "r", "d", "e", "r">>)
\* Differs from the target in letter case only.
ClimbHarder == Text(<<"C", "l", "i", "m", "b", "H", "a", "r", "d", "e", "r">>)

Text120 == Rep("a", MinBodyLen)
\* 122 characters, 120 after trimming.
Padded120 == Cat(Cat(Text(<<" ">>), Text120), Text(<<"\t">>))
\* 121 characters, 119 after trimming.
Padded119 == Cat(Cat(Text(<<" ">>), Rep("a", MinBodyLen - 1)), Text(<<"\n">>))
\* 120 characters once trimmed, with a quote and a tab inside.
Quoted120 == Cat(Cat(Text(<<"q", "\"", "\t">>), Rep("a", MinBodyLen - 4)), Text(<<"z">>))

Sub(s)  == Member("subreddit", StrV(s))
Score(n) == Member("score", IntV(n))
Body(s) == Member("body", StrV(s))

RECURSIVE Commas(_)
Commas(ms) ==
    IF Len(ms) <= 1 THEN ms ELSE <<Head(ms), COMMA>> \o Commas(Tail(ms))

\* The bytes of the JSON object with the given members.
Obj(ms) == <<LBRACE>> \o Commas(ms) \o <<RBRACE>>

\* The lines streams are built from.
Catalogue ==
    { \* comment, passes at every threshold
      Obj(<<Sub(Climbharder), Score(25), Body(Padded120)>>),
      \* other subreddit
      Obj(<<Sub(ClimbHarder), Score(100), Body(Text120)>>),
      \* score equal to the command line's threshold
      Obj(<<Sub(Climbharder), Score(20), Body(Quoted120)>>),
      \* no score
      Obj(<<Sub(Climbharder), Body(Text120)>>),
      \* no body
      Obj(<<Sub(Climbharder), Score(25)>>),
      \* body too short once trimmed
      Obj(<<Sub(Climbharder), Score(25), Body(Padded119)>>),
      \* submission
      Obj(<<Sub(Climbharder), Score(50), Member("title", StrV(Text(<<" ", "T", " ">>))),
            Member("selftext", StrV(Text(<<"S", "\t">>))), Body(Text120)>>),
      \* submission without selftext; score given twice
      <<WS>> \o Obj(<<Sub(Climbharder), Score(5), Score(25), Member("title", StrV(Text(<<"T">>))),
            Body(Text120)>>),
      \* truncated JSON
      <<LBRACE, Sub(Climbharder), COMMA>>,
      \* not decodable
      <<BAD>>,
      \* JSON, but not an object
      <<Value(ArrV)>>,
      \* score of the wrong type
      Obj(<<Sub(Climbharder), Member("score", StrV(Text(<<"2", "5">>))), Body(Text120)>>),
      \* body null
      Obj(<<Sub(Climbharder), Score(25), Body(Text120), Member("body", NullV)>>),
      \* title null
      Obj(<<Sub(Climbharder), Score(25), Body(Text120), Member("title", NullV)>>)
    }

\* Bytes after the final terminator: none, or a record that would pass.
Tails == {<<>>, Obj(<<Sub(Climbharder), Score(25), Body(Text120)>>)}

RECURSIVE Join(_)
Join(ls) == IF ls = <<>> THEN <<>> ELSE Head(ls) \o <<NL>> \o Join(Tail(ls))

LineStreams ==
    {Join(ls) \o tl : ls \in UNION {[1..n -> Catalogue] : n \in 0..MaxLines}, tl \in Tails}

RawAlphabet == {NL, WS, LBRACE, RBRACE}
RawStreams == UNION {[1..n -> RawAlphabet] : n \in 0..MaxBytes}

Streams == LineStreams \cup RawStreams

\* score_threshold: the command line's 20, and a negative one.
Thresholds == {20, -1}

\* What the output path holds before a run: nothing, or an earlier file.
NoFile   == [exists |-> FALSE, data |-> <<>>]
OldFile  == [exists |-> TRUE,  data |-> Text(<<"o", "l", "d", "\n">>)]

\* ------------------------------------------------------------------ state
VARIABLES
    inputExists,      \* os.path.isfile(input_path)
    stream,           \* the decompressed bytes the reader can deliver
    corrupt,          \* after those bytes the compressed stream is invalid (the
                      \* read that follows them raises) rather than ended
    subreddit_filter,
    score_threshold,
    outFile,          \* the file at output_path
    pc,               \* "init", "loop", "done", "raised", "returned"
    fOpen,            \* f is open
    outOpen,          \* out_file is open
    pos,              \* bytes the reader has delivered
    buffer,
    lines,            \* the lines of the current chunk not yet processed
    err,              \* the exception that left the function, "" if none
    reported,         \* the "not found" message was printed
    log,              \* history: each processed line and what was written for it
    run,              \* 1 or 2: which invocation this is
    prevOut           \* history: the file at output_path when the first run ended

vars == <<inputExists, stream, corrupt, subreddit_filter, score_threshold, outFile,
          pc, fOpen, outOpen, pos, buffer, lines, err, reported, log, run, prevOut>>

input == <<inputExists, stream, corrupt, subreddit_filter, score_threshold>>

Init ==
    /\ inputExists \in BOOLEAN
    /\ stream \in (IF inputExists THEN Streams ELSE {<<>>})
    /\ corrupt \in (IF inputExists THEN BOOLEAN ELSE {FALSE})
    /\ subreddit_filter = Climbharder
    /\ score_threshold \in Thresholds
    /\ outFile \in {NoFile, OldFile}
    /\ pc = "init"
    /\ fOpen = FALSE
    /\ outOpen = FALSE
    /\ pos = 0
    /\ buffer = <<>>
    /\ lines = <<>>
    /\ err = ""
    /\ reported = FALSE
    /\ log = <<>>
    /\ run = 1
    /\ prevOut = NoFile

\* open(output_path, 'w'): create or truncate.
OpenForWrite_append(file) == [exists |-> TRUE, data |-> file.data]
OpenForWrite(file) == [exists |-> TRUE, data |-> <<>>]

\* out_file.write(s)
Write(file, s) == [file EXCEPT !.data = Cat(@, s)]

\* A handle's state once the with block is left, by exception or not.
AfterWith_leakOnRaise(raised) == raised
AfterWith(raised) == FALSE

\* Lines 7-14: the existence check, then both opens.
Start_openFirst ==
    /\ pc = "init"
    /\ outFile' = OpenForWrite(outFile)
    /\ IF ~inputExists
       THEN /\ reported' = TRUE
            /\ pc' = "returned"
            /\ UNCHANGED <<fOpen, outOpen>>
       ELSE /\ fOpen' = TRUE
            /\ outOpen' = TRUE
            /\ pc' = "loop"
            /\ UNCHANGED reported
    /\ UNCHANGED <<input, pos, buffer, lines, err, log, run, prevOut>>

Start ==
    /\ pc = "init"
    /\ IF ~inputExists
       THEN /\ reported' = TRUE
            /\ pc' = "returned"
            /\ UNCHANGED <<outFile, fOpen, outOpen>>
       ELSE /\ fOpen' = TRUE
            /\ outOpen' = TRUE
            /\ outFile' = OpenForWrite(outFile)
            /\ pc' = "loop"
            /\ UNCHANGED reported
    /\ UNCHANGED <<input, pos, buffer, lines, err, log, run, prevOut>>

\* The for loop asks for the next chunk only after the inner loop has finished.
MayRead_early == pc = "loop"
MayRead == pc = "loop" /\ lines = <<>>

\* Lines 15-18: a non-empty chunk arrives.
ReadChunk ==
    /\ MayRead
    /\ \E n \in 1..ChunkSize :
         /\ pos + n <= Len(stream)
         /\ LET parts == Split(buffer \o SubSeq(stream, pos + 1, pos + n))
            IN  /\ buffer' = Carry(parts)
                /\ lines' = Complete(parts)
         /\ pos' = pos + n
    /\ UNCHANGED <<input, outFile, pc, fOpen, outOpen, err, reported, log, run, prevOut>>

\* Line 15: read returns b'', the loop and the with block end.
ReadEnd ==
    /\ MayRead
    /\ pos = Len(stream)
    /\ ~corrupt
    /\ pc' = "done"
    /\ fOpen' = AfterWith(FALSE)
    /\ outOpen' = AfterWith(FALSE)
    /\ UNCHANGED <<input, outFile, pos, buffer, lines, err, reported, log, run, prevOut>>

\* Line 15: read raises on the invalid stream; nothing catches it.
ReadError ==
    /\ MayRead
    /\ pos = Len(stream)
    /\ corrupt
    /\ pc' = "raised"
    /\ err' = "ZstdError"
    /\ fOpen' = AfterWith(TRUE)
    /\ outOpen' = AfterWith(TRUE)
    /\ UNCHANGED <<input, outFile, pos, buffer, lines, reported, log, run, prevOut>>

\* Lines 20-52: the next line of the chunk goes through the filter.
ProcessLine ==
    /\ pc = "loop"
    /\ lines # <<>>
    /\ LET line == Head(lines)
           r == FilterLine(line, subreddit_filter, score_threshold)
           w == IF r.kind = "emit" THEN Cat(Dumps(r.text), Text(<<"\n">>)) ELSE <<>>
       IN  /\ log' = Append(log, [line |-> line, kind |-> r.kind, at |-> r.at, wrote |-> w])
           /\ outFile' = IF r.kind = "emit" THEN Write(outFile, w) ELSE outFile
           /\ lines' = Tail(lines)
           /\ IF r.kind = "raise"
              THEN /\ pc' = "raised"
                   /\ err' = r.err
                   /\ fOpen' = AfterWith(TRUE)
                   /\ outOpen' = AfterWith(TRUE)
              ELSE UNCHANGED <<pc, err, fOpen, outOpen>>
    /\ UNCHANGED <<input, pos, buffer, reported, run, prevOut>>

\* The program is run a second time on the same input, configuration and output
\* path; in between, the file at the output path may have been replaced or removed.
RunAgain ==
    /\ run = 1
    /\ pc \in {"done", "raised", "returned"}
    /\ run' = 2
    /\ prevOut' = outFile
    /\ outFile' \in {outFile, NoFile, OldFile}
    /\ pc' = "init"
    /\ fOpen' = FALSE
    /\ outOpen' = FALSE
    /\ pos' = 0
    /\ buffer' = <<>>
    /\ lines' = <<>>
    /\ err' = ""
    /\ reported' = FALSE
    /\ log' = <<>>
    /\ UNCHANGED input

Next == Start \/ ReadChunk \/ ReadEnd \/ ReadError \/ ProcessLine \/ RunAgain

Spec == Init /\ [][Next]_vars

\* ------------------------------------------------------------ properties
\* Reference definitions used to state the properties.

\* The positions of the terminators of s.
NlAt(s) == {i \in 1..Len(s) : s[i].tk = "nl"}

\* The position of the j-th terminator of s.
NthNl(s, j) == CHOOSE i \in NlAt(s) : Cardinality({k \in NlAt(s) : k <= i}) = j

\* The segment of s that precedes its j-th terminator.
Segment(s, j) == SubSeq(s, IF j = 1 THEN 1 ELSE NthNl(s, j - 1) + 1, NthNl(s, j) - 1)

\* What follows the last terminator of s (all of s when it has none).
AfterLastNl(s) ==
    SubSeq(s, IF NlAt(s) = {} THEN 1 ELSE NthNl(s, Cardinality(NlAt(s))) + 1, Len(s))

\* The lines split off so far, in order: those processed, then those waiting.
Handed == [i \in 1..Len(log) |-> log[i].line] \o lines

InRun == pc \in {"loop", "done", "raised"}

\* The concatenation of what was written for each processed line.
RECURSIVE Written(_)
Written(l) == IF l = <<>> THEN <<>> ELSE Cat(Head(l).wrote, Written(Tail(l)))

\* The parsed object of a line, and the three gates stated on it.
PostOf(line) == Loads(line).m
IsObject(line) == Loads(line).err = "ok" /\ Loads(line).top = "obj"
SubredditOk(line) == PostOf(line)["subreddit"] = StrV(subreddit_filter)
ScoreOk(line) ==
    \/ PostOf(line)["score"].t = "int" /\ PostOf(line)["score"].n > score_threshold
    \/ PostOf(line)["score"].t = "absent" /\ 0 > score_threshold
BodyOk(line) ==
    /\ PostOf(line)["body"].t = "str"
    /\ TextLen(Strip(PostOf(line)["body"].s)) >= 120
Newline == Text(<<"\n">>)

\* C1: every record in the output file was written for a complete input line
\* (a segment that precedes a terminator of the stream) whose parsed object has
\* subreddit equal to the target, score (0 when absent) above the threshold and
\* a body of at least 120 characters once trimmed.
C1_EmittedPassGates ==
    /\ InRun => outFile.data = Written(log)
    /\ \A i \in 1..Len(log) :
         log[i].wrote # <<>> =>
            /\ i <= Cardinality(NlAt(stream))
            /\ log[i].line = Segment(stream, i)
            /\ IsObject(log[i].line)
            /\ SubredditOk(log[i].line)
            /\ ScoreOk(log[i].line)
            /\ BodyOk(log[i].line)

\* A record has been written for a line whose body is 120 characters only after trimming.
C1_Witness ==
    \E i \in 1..Len(log) :
        /\ log[i].wrote # <<>>
        /\ outFile.data # <<>>
        /\ TextLen(PostOf(log[i].line)["body"].s) > 120
        /\ TextLen(Strip(PostOf(log[i].line)["body"].s)) = 120

\* C2: whatever the chunking, the lines split off so far are exactly the
\* segments preceding the terminators among the bytes read so far, in order and
\* free of terminators, and the buffer is what follows the last of them; at
\* exhaustion every such segment of the whole stream has gone through the
\* filter and the bytes after the final terminator have not.
C2_LinesIndependentOfChunking ==
    InRun =>
        LET got == SubSeq(stream, 1, pos)
            k == Cardinality(NlAt(got))
        IN  /\ Len(Handed) = k
            /\ \A j \in 1..k : Handed[j] = Segment(stream, j) /\ NlAt(Handed[j]) = {}
            /\ buffer = AfterLastNl(got)
            /\ (pc = "done" \/ err = "ZstdError") =>
                  /\ pos = Len(stream)
                  /\ lines = <<>>
                  /\ Len(log) = Cardinality(NlAt(stream))

\* The stream is exhausted, two lines went through the filter, and the record
\* after the final terminator, which would pass every gate, was dropped.
C2_Witness ==
    /\ pc = "done"
    /\ Len(log) = 2
    /\ buffer = AfterLastNl(stream)
    /\ FilterLine(buffer, subreddit_filter, score_threshold).kind = "emit"
    /\ outFile.data = <<>>

\* C3: a line whose parsing as JSON fails, for whatever reason, is skipped.
C3_ParseFailureSkipped ==
    \A i \in 1..Len(log) :
        (~IsBlank(log[i].line) /\ Loads(log[i].line).err # "ok") => log[i].kind = "skip"

\* C4: a line that parses as JSON never makes the run raise.
C4_AnomaliesAbsorbed ==
    \A i \in 1..Len(log) : Loads(log[i].line).err = "ok" => log[i].kind # "raise"

\* C5: when the input file does not exist, the call prints the message and
\* returns without raising, with both handles never opened and the file at the
\* output path exactly as it was.
C5_MissingInputLeavesOutput ==
    [][(pc = "init" /\ ~inputExists) =>
          /\ pc' = "returned"
          /\ reported'
          /\ err' = ""
          /\ outFile' = outFile
          /\ ~fOpen' /\ ~outOpen']_vars

\* The call returned on a missing input and there is still no output file.
C5_Witness == pc = "returned" /\ reported /\ ~inputExists /\ outFile = NoFile /\ run = 1

\* The text the record of a line holds according to the spec.
Expected(line) ==
    IF PostOf(line)["title"].t # "absent"
    THEN Cat(Cat(Strip(PostOf(line)["title"].s), Text(<<" ">>)),
             Strip(PostOf(line)["selftext"].s))
    ELSE Strip(PostOf(line)["body"].s)

\* C6: every complete line that parses to an object and passes the three gates
\* yields exactly one record {"body": text}, text being trimmed title + " " +
\* trimmed selftext when the object has a title, the trimmed body otherwise.
C6_EmittedShape ==
    \A i \in 1..Len(log) :
        (IsObject(log[i].line) /\ SubredditOk(log[i].line) /\ ScoreOk(log[i].line)
            /\ BodyOk(log[i].line))
        => log[i].wrote = Cat(Dumps(Expected(log[i].line)), Newline)

\* C7: when the second run ends, the output file is byte for byte what it was
\* when the first run ended, whatever the file held before either run and
\* however either run's reads were chunked.
C7_SecondRunSameOutput ==
    (run = 2 /\ pc \in {"done", "raised"}) => outFile = prevOut

\* The second run has ended with records in the output.
C7_Witness ==
    /\ run = 2
    /\ pc = "done"
    /\ Len(log) = 2
    /\ \A i \in 1..2 : log[i].wrote # <<>>
    /\ outFile = prevOut

\* C8: both handles are open while the loop runs and closed in every terminal
\* state, whether the stream was exhausted or an exception left the function.
C8_HandlesClosed ==
    /\ pc = "loop" => fOpen /\ outOpen
    /\ pc \in {"done", "raised", "returned"} => ~fOpen /\ ~outOpen
    /\ err # "" <=> pc = "raised"

\* A chunk read raised after a record had been written.
C8_Witness ==
    /\ pc = "raised"
    /\ err = "ZstdError"
    /\ outFile.data # <<>>
    /\ ~fOpen /\ ~outOpen

\* C9: an absent field takes its default and never raises: without a score the
\* record is emitted only under a negative threshold (and is then emitted when
\* the other gates pass); without a body it is not emitted; a submission
\* without selftext is emitted as trimmed title + " ".
C9_AbsentFieldDefaults ==
    \A i \in 1..Len(log) :
        LET line == log[i].line
            post == PostOf(line)
        IN  IsObject(line) =>
            /\ (log[i].kind = "raise" /\ log[i].at \in Keys) => post[log[i].at].t # "absent"
            /\ post["score"].t = "absent" =>
                  /\ log[i].kind = "emit" => score_threshold < 0
                  /\ (score_threshold < 0 /\ SubredditOk(line) /\ BodyOk(line)
                        /\ post["title"].t = "absent")
                     => log[i].wrote = Cat(Dumps(Strip(post["body"].s)), Newline)
            /\ post["body"].t = "absent" => log[i].kind # "emit"
            /\ (post["selftext"].t = "absent" /\ post["title"].t = "str"
                    /\ log[i].kind = "emit")
               => log[i].wrote = Cat(Dumps(Cat(Strip(post["title"].s), Text(<<" ">>))), Newline)

\* A record without score and a submission without selftext have both been emitted.
C9_Witness ==
    /\ Len(log) = 2
    /\ PostOf(log[1].line)["score"].t = "absent" /\ log[1].kind = "emit"
    /\ PostOf(log[2].line)["title"].t = "str" /\ PostOf(log[2].line)["selftext"].t = "absent"
    /\ log[2].kind = "emit"

\* What the filter writes for a line.
Image(line) ==
    LET r == FilterLine(line, subreddit_filter, score_threshold)
    IN  IF r.kind = "emit" THEN Cat(Dumps(r.text), Newline) ELSE <<>>

RECURSIVE ImageOf(_)
ImageOf(l) == IF l = <<>> THEN <<>> ELSE Cat(Image(Head(l).line), ImageOf(Tail(l)))

\* C10: the output is at every point the records of the accepted lines among
\* those processed so far, in their order; a step of a run processes at most one
\* line and appends at most its one record to what the file held; and no chunk
\* is read while a line of an earlier chunk is still waiting.
C10_OrderedOneAtATime ==
    /\ [](InRun => outFile.data = ImageOf(log))
    /\ [][(pc = "loop") =>
            /\ pos' # pos => lines = <<>>
            /\ Len(log') <= Len(log) + 1
            /\ Len(log') = Len(log) => outFile' = outFile
            /\ Len(log') = Len(log) + 1 =>
                  /\ log' = Append(log, log'[Len(log')])
                  /\ log'[Len(log')].line = Head(lines)
                  /\ outFile'.data = Cat(outFile.data, Image(Head(lines)))]_vars

\* The stream is exhausted; the first of two lines was skipped, the second
\* emitted, and the output holds exactly the second line's record.
C10_Witness ==
    /\ pc = "done"
    /\ Len(log) = 2
    /\ log[1].wrote = <<>>
    /\ log[2].wrote # <<>>
    /\ outFile.data = log[2].wrote

====
